---- MODULE Spec2Model ----
(***************************************************************************)
(* Model of the libadwaita/GTK4 backend of winit                           *)
(* (src/platform_impl/linux): the event loop and its two cells, the        *)
(* monitor enumeration, the display handle resolver and the window.        *)
(*                                                                         *)
(* Rust values are encoded as follows.                                     *)
(*   Option<T>      None == <<>>, Some(v) == <<v>>                         *)
(*   Result<T, E>   Ok(v) == <<"Ok", v>>, Err(e) == <<"Err", e>>           *)
(*   a panic        Panic(msg) == <<"Panic", msg>>; the thread unwinds and *)
(*                  the operation returns nothing                          *)
(*   ControlFlow    <<"Poll">>, <<"Wait">>, <<"WaitUntil", deadline>>      *)
(***************************************************************************)
EXTENDS Integers, Sequences, FiniteSets, TLC

\* ------------------------------------------------------------- bounds
\* WaitUntil deadlines are drawn from 0..MaxDeadline.
MaxDeadline == 1
\* X screen numbers are drawn from 0..MaxScreen.
MaxScreen == 1
\* Native outputs (gdk::Monitor objects) are 1..MaxMonitors.
MaxMonitors == 2
\* Heap addresses a native adw::Window can be allocated at are 1..MaxAddr.
MaxAddr == 2
\* Number of EventLoopProxy values handed out.
MaxProxies == 1

\* ------------------------------------------------------------- values
None == <<>>
Some(v) == <<v>>
Ok(v) == <<"Ok", v>>
Err(e) == <<"Err", e>>
Panic(msg) == <<"Panic", msg>>

IsSome(o) == o # None
IsOk(r) == r[1] = "Ok"
IsErr(r) == r[1] = "Err"
IsPanic(r) == r[1] = "Panic"

Poll == <<"Poll">>
Wait == <<"Wait">>
WaitUntil(deadline) == <<"WaitUntil", deadline>>
ControlFlows == {Poll, Wait} \cup {WaitUntil(d) : d \in 0..MaxDeadline}
\* ControlFlow::default() (crate::event_loop, `#[default] Wait`).
ControlFlowDefault == Wait

Monitors == 1..MaxMonitors
Addrs == 1..MaxAddr
Screens == 0..MaxScreen

\* What gdk::Display::default() can hand back: a GdkDisplay of the Wayland
\* backend, of the X11 backend (with the number of its screen), or of another
\* GDK backend (Broadway).
WaylandDisplay == [kind |-> "Wayland", screen_number |-> 0]
X11Display(s) == [kind |-> "X11", screen_number |-> s]
OtherDisplay == [kind |-> "Other", screen_number |-> 0]
Displays == {WaylandDisplay, OtherDisplay} \cup {X11Display(s) : s \in Screens}

\* ------------------------------------------------------------- state
VARIABLES
    pc,               \* position of the loop thread
    is_running,       \* glib::MainLoop's is_running flag
    wakeup_pending,   \* glib::MainContext: a wakeup was requested
    proxies,          \* number of EventLoopProxy values created
    display,          \* ActiveEventLoop.display : Option<gdk::Display>
    control_flow_cell, \* ActiveEventLoop.control_flow : Cell<ControlFlow>
    exit_cell,        \* ActiveEventLoop.exit : Cell<Option<i32>>
    color_scheme,     \* adw::StyleManager::default()'s color scheme
    native_monitors,  \* the display's list of outputs, in the toolkit's order
    held_monitors,    \* the sequence the last available_monitors() returned
    windows,          \* the live Window values
    last,             \* the last step taken: its operation, what it returned,
                      \* and whether the step before was the same operation
    cf_last_set,      \* history: argument of the last set_control_flow call
    first_exit        \* history: exit state recorded by the first exit() call

vars == <<pc, is_running, wakeup_pending, proxies, display, control_flow_cell,
          exit_cell, color_scheme, native_monitors, held_monitors, windows,
          last, cf_last_set, first_exit>>

loop_vars == <<pc, is_running, wakeup_pending, proxies, display>>
cell_vars == <<control_flow_cell, exit_cell>>
hist_vars == <<cf_last_set, first_exit>>
env_vars == <<color_scheme, native_monitors, held_monitors, windows>>

\* Sequences over S in which no element occurs twice.
RECURSIVE DistinctSeqs(_)
DistinctSeqs(S) ==
    IF S = {} THEN {<<>>}
    ELSE {<<>>} \cup UNION {{<<x>> \o s : s \in DistinctSeqs(S \ {x})} : x \in S}

Range(s) == {s[i] : i \in 1..Len(s)}

\* The process before EventLoop::new: no loop, no window; the outputs the
\* display server has are whatever the machine has.
Init ==
    /\ pc = "NotConstructed"
    /\ is_running = FALSE
    /\ wakeup_pending = FALSE
    /\ proxies = 0
    /\ display = None
    /\ control_flow_cell = ControlFlowDefault
    /\ exit_cell = None
    /\ color_scheme = "Default"
    /\ native_monitors \in DistinctSeqs(Monitors)
    /\ held_monitors = None
    /\ windows = {}
    /\ last = [op |-> "start", ret |-> None, repeat |-> FALSE]
    /\ cf_last_set = None
    /\ first_exit = None

\* Operations of ActiveEventLoop and Window run on the loop thread: before
\* run_app through window_target(), and from a source the main context
\* dispatches.
OnLoopThread == pc \in {"Constructed", "Dispatching"}

Label(op, ret) == [op |-> op, ret |-> ret, repeat |-> last.op = op]
Returned(op, ret) == last' = Label(op, ret)

\* ------------------------------------------------------------- EventLoop

\* A constructor that does not look at what Display::default() gave.
New_display_unchecked(init_ok, default_display) ==
    IF ~init_ok THEN
        [ret |-> Err("OsError"), is_running |-> FALSE, display |-> None,
         control_flow |-> ControlFlowDefault, exit |-> None]
    ELSE
        [ret |-> Ok("EventLoop"), is_running |-> FALSE,
         display |-> default_display,
         control_flow |-> ControlFlowDefault, exit |-> None]

\* EventLoop::new: the result and the fields of the loop it builds.
New(init_ok, default_display) ==
    IF ~init_ok THEN
        [ret |-> Err("OsError"), is_running |-> FALSE, display |-> None,
         control_flow |-> ControlFlowDefault, exit |-> None]
    ELSE IF default_display = None THEN
        [ret |-> Err("OsError"), is_running |-> FALSE, display |-> None,
         control_flow |-> ControlFlowDefault, exit |-> None]
    ELSE
        [ret |-> Ok("EventLoop"), is_running |-> FALSE,
         display |-> default_display,
         control_flow |-> ControlFlowDefault, exit |-> None]

EventLoopNew ==
    /\ pc = "NotConstructed"
    /\ \E init_ok \in BOOLEAN, d \in {None} \cup {Some(x) : x \in Displays} :
        LET r == New(init_ok, d) IN
        /\ pc' = IF IsOk(r.ret) THEN "Constructed" ELSE "NewFailed"
        /\ is_running' = r.is_running
        /\ display' = r.display
        /\ control_flow_cell' = r.control_flow
        /\ exit_cell' = r.exit
        /\ last' = Label("new", r.ret)
                      @@ [init_ok |-> init_ok, default_display |-> d]
    /\ UNCHANGED <<wakeup_pending, proxies, env_vars, hist_vars>>

\* run_app: the application handler is dropped unused and the calling thread
\* enters glib's g_main_loop_run, which sets is_running and iterates the
\* context while is_running holds.
RunApp ==
    /\ pc = "Constructed"
    /\ is_running' = TRUE
    /\ pc' = "Polling"
    /\ Returned("run_app:enter", None)
    /\ UNCHANGED <<wakeup_pending, proxies, display, cell_vars, env_vars, hist_vars>>

\* One iteration of the main context leaves its blocking poll: a wakeup was
\* requested or a source of the toolkit became ready.
PollReturn ==
    /\ pc = "Polling"
    /\ \E source_ready \in BOOLEAN : wakeup_pending \/ source_ready
    /\ wakeup_pending' = FALSE
    /\ pc' = "Dispatching"
    /\ Returned("loop:wake", None)
    /\ UNCHANGED <<is_running, proxies, display, cell_vars, env_vars, hist_vars>>

\* What main_loop.run() does at the end of a dispatch cycle: it tests its own
\* is_running flag, which only glib::MainLoop::quit clears; the exit cell is
\* not read. When the flag is clear run() returns and run_app returns Ok(()).
MainLoopRunStep(running) ==
    IF running THEN [pc |-> "Polling", ret |-> None]
    ELSE [pc |-> "Returned", ret |-> Ok("unit")]

DispatchDone ==
    /\ pc = "Dispatching"
    /\ LET r == MainLoopRunStep(is_running) IN
        /\ pc' = r.pc
        /\ Returned(IF r.pc = "Returned" THEN "run_app" ELSE "loop:cycle", r.ret)
    /\ UNCHANGED <<is_running, wakeup_pending, proxies, display, cell_vars,
                   env_vars, hist_vars>>

\* ------------------------------------------------------------- cells

\* A setter that keeps the variant and loses the deadline.
set_control_flow_variant_only(cell, flow) ==
    IF flow[1] = "WaitUntil" THEN WaitUntil(0) ELSE flow

\* An exit() that records a different code when one is already recorded.
exit_recount(cell) == IF cell = None THEN Some(0) ELSE Some(1)

\* An exit() that flips the request instead of setting it.
exit_toggle(cell) == IF cell = None THEN Some(0) ELSE None

\* A read that moves the value out and leaves the cell empty, as Cell::take.
Cell_take(cell) == [value |-> cell, cell |-> None]

\* Cell::get, the read both getters use: a copy of the value, and the cell
\* as it was.
Cell_get(cell) == [value |-> cell, cell |-> cell]

set_control_flow(cell, flow) == flow
control_flow(cell) == cell
exit(cell) == Some(0)
exiting(cell) == IsSome(cell)

SetControlFlow ==
    /\ OnLoopThread
    /\ \E cf \in ControlFlows :
        /\ control_flow_cell' = set_control_flow(control_flow_cell, cf)
        /\ cf_last_set' = Some(cf)
    /\ Returned("set_control_flow", None)
    /\ UNCHANGED <<loop_vars, exit_cell, env_vars, first_exit>>

ControlFlowGet ==
    /\ OnLoopThread
    /\ Returned("control_flow", control_flow(Cell_get(control_flow_cell).value))
    /\ control_flow_cell' = Cell_get(control_flow_cell).cell
    /\ UNCHANGED <<loop_vars, exit_cell, env_vars, hist_vars>>

Exit ==
    /\ OnLoopThread
    /\ exit_cell' = exit(exit_cell)
    /\ first_exit' = IF first_exit = None THEN Some(exit_cell') ELSE first_exit
    /\ Returned("exit", None)
    /\ UNCHANGED <<loop_vars, control_flow_cell, env_vars, cf_last_set>>

Exiting ==
    /\ OnLoopThread
    /\ Returned("exiting", exiting(Cell_get(exit_cell).value))
    /\ exit_cell' = Cell_get(exit_cell).cell
    /\ UNCHANGED <<loop_vars, control_flow_cell, env_vars, hist_vars>>

\* ------------------------------------------------------------- proxy

CreateProxy ==
    /\ OnLoopThread
    /\ proxies < MaxProxies
    /\ proxies' = proxies + 1
    /\ Returned("create_proxy", "EventLoopProxy")
    /\ UNCHANGED <<pc, is_running, wakeup_pending, display, cell_vars, env_vars,
                   hist_vars>>

\* A wake_up that does not reach the main context.
wake_up_lost(pending) == pending

\* EventLoopProxy::wake_up, from any thread, whatever the loop thread does.
wake_up(pending) == TRUE

WakeUp ==
    /\ proxies > 0
    /\ pc \in {"Constructed", "Polling", "Dispatching"}
    /\ wakeup_pending' = wake_up(wakeup_pending)
    /\ Returned("wake_up", None)
    /\ UNCHANGED <<pc, is_running, proxies, display, cell_vars, env_vars, hist_vars>>

\* ------------------------------------------------------------- monitors

\* output.rs MonitorHandle::new, then the crate-level wrapper around it.
MonitorHandle_new(proxy) == [inner |-> proxy]
MonitorHandle(m) == [inner |-> MonitorHandle_new(m)]

\* An enumeration that starts after the first output.
available_monitors_skip_first(list) ==
    [i \in 1..(Len(list) - 1) |-> MonitorHandle(list[i + 1])]

\* available_monitors: one pass over display.monitors(), each object wrapped
\* and pushed onto a fresh Vec.
RECURSIVE available_monitors(_)
available_monitors(list) ==
    IF list = <<>> THEN <<>>
    ELSE <<MonitorHandle(Head(list))>> \o available_monitors(Tail(list))

AvailableMonitors ==
    /\ OnLoopThread
    /\ held_monitors' = Some(available_monitors(native_monitors))
    /\ Returned("available_monitors", available_monitors(native_monitors))
    /\ UNCHANGED <<loop_vars, cell_vars, color_scheme, native_monitors, windows,
                   hist_vars>>

primary_monitor == None

PrimaryMonitor ==
    /\ OnLoopThread
    /\ Returned("primary_monitor", primary_monitor)
    /\ UNCHANGED <<loop_vars, cell_vars, env_vars, hist_vars>>

ListenDeviceEvents ==
    /\ OnLoopThread
    /\ Returned("listen_device_events", None)
    /\ UNCHANGED <<loop_vars, cell_vars, env_vars, hist_vars>>

\* The display server adds or removes an output; the toolkit updates its
\* list while the main context dispatches the display's source.
MonitorsChanged ==
    /\ pc = "Dispatching"
    /\ \/ \E m \in Monitors \ Range(native_monitors) :
            native_monitors' = Append(native_monitors, m)
       \/ \E i \in 1..Len(native_monitors) :
            native_monitors' = SubSeq(native_monitors, 1, i - 1)
                                 \o SubSeq(native_monitors, i + 1, Len(native_monitors))
    /\ Returned("env:monitors_changed", None)
    /\ UNCHANGED <<loop_vars, cell_vars, color_scheme, held_monitors, windows,
                   hist_vars>>

\* ------------------------------------------------------------- display handle

\* display_handle_from_gdk. wl_display is what WaylandDisplay::wl_display()
\* gives (None, or Some of the pointer value of its id, 0 being null) and
\* xdisplay the pointer X11Display::xdisplay() gives. downcasts lists the
\* downcast_ref calls made, in order.
\* A Wayland branch that wraps the pointer without the null check.
wayland_handle_unchecked(wl_display) ==
    IF wl_display = None THEN Err("Unavailable")
    ELSE Ok([protocol |-> "Wayland", display |-> wl_display[1]])

\* An X11 branch that reports the default screen whatever the display says.
xlib_handle_default_screen(d, xdisplay) ==
    Ok([protocol |-> "Xlib",
        display |-> IF xdisplay = 0 THEN None ELSE Some(xdisplay),
        screen |-> 0])

\* A fallback that reports a recoverable error instead of aborting.
neither_protocol_unavailable == Err("Unavailable")

\* The WaylandDisplay branch.
wayland_handle(wl_display) ==
    IF wl_display = None THEN Err("Unavailable")
    ELSE IF wl_display[1] = 0 THEN Panic("wl_display should not be null")
    ELSE Ok([protocol |-> "Wayland", display |-> wl_display[1]])

\* The X11Display branch: NonNull::new maps a null pointer to None.
xlib_handle(d, xdisplay) ==
    Ok([protocol |-> "Xlib",
        display |-> IF xdisplay = 0 THEN None ELSE Some(xdisplay),
        screen |-> d.screen_number])

\* Neither downcast succeeded.
neither_protocol == Panic("unreachable")

display_handle_from_gdk(d, wl_display, xdisplay) ==
    IF d.kind = "Wayland" THEN
        [ret |-> wayland_handle(wl_display), downcasts |-> <<"WaylandDisplay">>]
    ELSE IF d.kind = "X11" THEN
        [ret |-> xlib_handle(d, xdisplay),
         downcasts |-> <<"WaylandDisplay", "X11Display">>]
    ELSE
        [ret |-> neither_protocol,
         downcasts |-> <<"WaylandDisplay", "X11Display">>]

\* HasDisplayHandle::display_handle of ActiveEventLoop and of
\* OwnedDisplayHandle (a clone of the same display).
DisplayHandle ==
    /\ OnLoopThread
    /\ \E wl \in {None, Some(0), Some(1)}, x \in {0, 1} :
        LET r == display_handle_from_gdk(display[1], wl, x) IN
        /\ last' = Label("display_handle", r.ret) @@ [downcasts |-> r.downcasts]
        /\ pc' = IF IsPanic(r.ret) THEN "Panicked" ELSE pc
    /\ UNCHANGED <<is_running, wakeup_pending, proxies, display, cell_vars, env_vars,
                   hist_vars>>

\* ------------------------------------------------------------- windows

\* WindowAttributes fields this backend has no counterpart for.
UnsupportedFields ==
    {"position", "transparent", "blur", "max_surface_size",
     "surface_resize_increments", "window_level", "active", "parent_window"}

\* The attribute sets tried: fullscreen is Option<Fullscreen>, with the
\* monitor of Borderless one of the handles available_monitors() returned;
\* unsupported is the set of unsupported fields the caller filled in.
Fullscreens ==
    {None, Some(<<"Exclusive">>), Some(<<"Borderless", None>>)}
    \cup {Some(<<"Borderless", Some(held_monitors[1][i])>>) :
            i \in 1..(IF held_monitors = None THEN 0 ELSE Len(held_monitors[1]))}

WindowAttributes ==
    [fullscreen : Fullscreens,
     preferred_theme : {None, Some("Light"), Some("Dark")},
     unsupported : {u \in {{}, {"position"}} : u \subseteq UnsupportedFields}]

\* The preferred_theme branch: the style manager is process-wide.
set_color_scheme(scheme, preferred_theme) ==
    IF preferred_theme = None THEN scheme
    ELSE IF preferred_theme[1] = "Light" THEN "PreferLight"
    ELSE "PreferDark"

\* The fullscreen branch, on the native window just built: whether it is
\* fullscreen and on which output.
apply_fullscreen(fullscreen) ==
    IF fullscreen = None THEN [fullscreened |-> FALSE, monitor |-> None]
    ELSE IF fullscreen[1][1] = "Exclusive" THEN
        [fullscreened |-> FALSE, monitor |-> None]
    ELSE IF fullscreen[1][2] = None THEN
        [fullscreened |-> TRUE, monitor |-> None]
    ELSE
        [fullscreened |-> TRUE, monitor |-> Some(fullscreen[1][2][1].inner.inner)]

\* ActiveEventLoop::create_window: the native window is built and made
\* fullscreen as asked, then the body ends in todo!(), which panics; no
\* Window is returned.
create_window(attributes, scheme) ==
    [ret |-> Panic("not yet implemented"),
     color_scheme |-> set_color_scheme(scheme, attributes.preferred_theme)]

CreateWindow ==
    /\ OnLoopThread
    /\ \E attributes \in WindowAttributes :
        LET r == create_window(attributes, color_scheme) IN
        /\ color_scheme' = r.color_scheme
        /\ last' = Label("create_window", r.ret)
                      @@ [unsupported |-> attributes.unsupported,
                          fullscreen |-> attributes.fullscreen]
        /\ pc' = IF IsPanic(r.ret) THEN "Panicked" ELSE pc
    /\ UNCHANGED <<is_running, wakeup_pending, proxies, display, cell_vars,
                   native_monitors, held_monitors, windows, hist_vars>>

create_custom_cursor(custom_cursor) == Panic("not yet implemented")

CreateCustomCursor ==
    /\ OnLoopThread
    /\ \E source \in {"image", "url"} :
        /\ Returned("create_custom_cursor", create_custom_cursor(source))
        /\ pc' = IF IsPanic(create_custom_cursor(source)) THEN "Panicked" ELSE pc
    /\ UNCHANGED <<is_running, wakeup_pending, proxies, display, cell_vars, env_vars,
                   hist_vars>>

system_theme(scheme) ==
    IF scheme = "Default" THEN None
    ELSE IF scheme \in {"PreferLight", "ForceLight"} THEN Some("Light")
    ELSE IF scheme \in {"PreferDark", "ForceDark"} THEN Some("Dark")
    ELSE None

SystemTheme ==
    /\ OnLoopThread
    /\ Returned("system_theme", system_theme(color_scheme))
    /\ UNCHANGED <<loop_vars, cell_vars, env_vars, hist_vars>>

\* Window::new: addr is the address the allocator gives the native window.
Window_new(attributes, addr) ==
    [inner |-> [addr |-> addr,
                fullscreened |-> apply_fullscreen(attributes.fullscreen).fullscreened,
                monitor |-> apply_fullscreen(attributes.fullscreen).monitor],
     window_id |-> addr]

LiveAddrs == {w.inner.addr : w \in windows}

WindowNew ==
    /\ OnLoopThread
    /\ \E attributes \in WindowAttributes, addr \in Addrs \ LiveAddrs :
        /\ windows' = windows \cup {Window_new(attributes, addr)}
        /\ color_scheme' = set_color_scheme(color_scheme, attributes.preferred_theme)
        /\ Returned("Window::new", Window_new(attributes, addr))
    /\ UNCHANGED <<loop_vars, cell_vars, native_monitors, held_monitors, hist_vars>>

\* The Window value is dropped and the native window freed.
WindowDrop ==
    /\ OnLoopThread
    /\ \E w \in windows :
        /\ windows' = windows \ {w}
        /\ last' = Label("drop", None) @@ [self |-> w.inner.addr]
    /\ UNCHANGED <<loop_vars, cell_vars, color_scheme, native_monitors,
                   held_monitors, hist_vars>>

\* A position query that answers the origin.
inner_position_origin(self) == Ok(<<0, 0>>)

\* An id taken from what the window shows instead of from what it is.
id_from_state(self) == IF self.inner.fullscreened THEN 1 ELSE 0

id(self) == self.window_id
inner_position(self) == Err("NotSupported")
outer_position(self) == Err("NotSupported")
request_redraw(self) == Panic("not yet implemented")

WindowCall(op, w, ret, panics) ==
    /\ last' = Label(op, ret) @@ [self |-> w.inner.addr]
    /\ pc' = IF panics THEN "Panicked" ELSE pc
    /\ UNCHANGED <<is_running, wakeup_pending, proxies, display, cell_vars, env_vars,
                   hist_vars>>

WindowId == OnLoopThread /\ \E w \in windows : WindowCall("id", w, id(w), FALSE)

InnerPosition ==
    OnLoopThread /\ \E w \in windows :
        WindowCall("inner_position", w, inner_position(w), IsPanic(inner_position(w)))

OuterPosition ==
    OnLoopThread /\ \E w \in windows :
        WindowCall("outer_position", w, outer_position(w), IsPanic(outer_position(w)))

SetOuterPosition ==
    OnLoopThread /\ \E w \in windows : WindowCall("set_outer_position", w, None, FALSE)

RequestRedraw ==
    OnLoopThread /\ \E w \in windows :
        WindowCall("request_redraw", w, request_redraw(w), IsPanic(request_redraw(w)))

\* ------------------------------------------------------------- specifications

\* The event loop itself: construction, run_app and glib's iteration.
LoopStep ==
    \/ EventLoopNew
    \/ RunApp
    \/ PollReturn
    \/ DispatchDone

\* The loop and every operation of ActiveEventLoop and of the proxy.
Next ==
    \/ EventLoopNew
    \/ RunApp
    \/ PollReturn
    \/ DispatchDone
    \/ SetControlFlow
    \/ ControlFlowGet
    \/ Exit
    \/ Exiting
    \/ CreateProxy
    \/ WakeUp
    \/ AvailableMonitors
    \/ PrimaryMonitor
    \/ ListenDeviceEvents
    \/ SystemTheme
    \/ DisplayHandle
    \/ CreateWindow
    \/ CreateCustomCursor

Spec == Init /\ [][Next]_vars

\* The loop thread is scheduled: a poll that can return does, and a dispatch
\* cycle ends.
FairSpec == Spec /\ WF_vars(PollReturn) /\ WF_vars(DispatchDone)

\* A poll with a wakeup pending returns: that is all glib promises of a
\* blocked loop, whose sources may stay silent for ever.
PollWake == wakeup_pending /\ PollReturn

\* The loop, its proxy and the writers of the two cells.
NextWake ==
    \/ EventLoopNew
    \/ RunApp
    \/ PollReturn
    \/ DispatchDone
    \/ SetControlFlow
    \/ Exit
    \/ CreateProxy
    \/ WakeUp

WakeSpec == Init /\ [][NextWake]_vars /\ WF_vars(PollWake)

\* The loop, the outputs of the display server changing under it, and the
\* monitor queries.
NextMonitors ==
    \/ EventLoopNew
    \/ RunApp
    \/ PollReturn
    \/ DispatchDone
    \/ AvailableMonitors
    \/ PrimaryMonitor
    \/ MonitorsChanged

SpecMonitors == Init /\ [][NextMonitors]_vars

\* The process once EventLoop::new has succeeded on a Wayland display.
InitWindow ==
    LET r == New(TRUE, Some(WaylandDisplay)) IN
    /\ pc = "Constructed"
    /\ is_running = r.is_running
    /\ wakeup_pending = FALSE
    /\ proxies = 0
    /\ display = r.display
    /\ control_flow_cell = r.control_flow
    /\ exit_cell = r.exit
    /\ color_scheme = "Default"
    /\ native_monitors \in DistinctSeqs(Monitors)
    /\ held_monitors = None
    /\ windows = {}
    /\ last = [op |-> "new", ret |-> r.ret, repeat |-> FALSE,
               init_ok |-> TRUE, default_display |-> Some(WaylandDisplay)]
    /\ cf_last_set = None
    /\ first_exit = None

\* The windows made on the loop's thread through window_target(), before
\* run_app.
NextWindow ==
    \/ AvailableMonitors
    \/ WindowNew
    \/ WindowDrop
    \/ WindowId
    \/ InnerPosition
    \/ OuterPosition
    \/ SetOuterPosition
    \/ RequestRedraw

SpecWindow == InitWindow /\ [][NextWindow]_vars


\* ------------------------------------------------------------- claims

Running == pc \in {"Polling", "Dispatching"}
Constructed == pc \notin {"NotConstructed", "NewFailed"}

\* What the program holds, without the record of the last step and the
\* history variables.
ProgramState ==
    <<pc, is_running, wakeup_pending, proxies, display, control_flow_cell,
      exit_cell, color_scheme, native_monitors, held_monitors, windows>>

\* C1: run_app does not return while no exit was requested, and once exit()
\* has been called and the loop runs, the loop stops and run_app returns
\* Ok(()) (or the thread has panicked), under FairSpec.
C1_ExitStopsRunApp ==
    /\ [](pc = "Returned" => IsSome(exit_cell))
    /\ (Running /\ IsSome(exit_cell))
         ~> (pc = "Panicked" \/ (pc = "Returned" /\ last.ret = Ok("unit")))

\* C2: a call of exit() right after a call of exit() leaves the program as
\* the first call left it, with exiting() true and the exit code the one the
\* first call recorded, 0.
C2_ExitIdempotent ==
    [][(last.op = "exit" /\ last'.op = "exit")
         => /\ ProgramState' = ProgramState
            /\ exiting(exit_cell')
            /\ Some(exit_cell') = first_exit'
            /\ exit_cell' = Some(0)]_vars

\* C2 witness: exit() was called twice in a row.
C2_Witness == last.op = "exit" /\ last.repeat /\ exit_cell = Some(0)

\* C3: the exit state is None when the loop is constructed, and once it is
\* Some(code) no step makes it None again or changes what exiting() says.
C3_ExitMonotonic ==
    [][/\ (last'.op = "new" => exit_cell' = None)
       /\ (IsSome(exit_cell) => IsSome(exit_cell') /\ exiting(exit_cell'))]_vars

\* C3 witness: exit was requested and the control flow set, and the loop has
\* since finished a dispatch cycle.
C3_Witness == last.op = "loop:cycle" /\ exit_cell = Some(0) /\ cf_last_set # None

\* C4: control_flow() returns the default variant until set_control_flow is
\* called, and afterwards the value given to the most recent call.
C4_ControlFlowRegister ==
    Constructed =>
        /\ control_flow(control_flow_cell)
             = (IF cf_last_set = None THEN ControlFlowDefault ELSE cf_last_set[1])
        /\ (last.op = "control_flow" => last.ret = control_flow(control_flow_cell))

\* C4 witness: control_flow() returned a WaitUntil with the deadline it was set to.
C4_Witness ==
    /\ last.op = "control_flow"
    /\ last.ret = WaitUntil(MaxDeadline)
    /\ cf_last_set = Some(WaitUntil(MaxDeadline))

\* C5: create_window given unsupported attribute fields returns a Window.
C5_CreateWindowIgnoresUnsupported ==
    (last.op = "create_window" /\ last.unsupported # {}) => IsOk(last.ret)

\* C6: for every live window inner_position() and outer_position() are an
\* error of the NotSupported kind, and that is what a call returns.
C6_PositionNotSupported ==
    /\ \A w \in windows :
        /\ inner_position(w) = Err("NotSupported")
        /\ outer_position(w) = Err("NotSupported")
    /\ (last.op \in {"inner_position", "outer_position"}
          => last.ret = Err("NotSupported"))

\* C6 witness: inner_position() was called on a fullscreen window.
C6_Witness ==
    /\ last.op = "inner_position"
    /\ \E w \in windows : w.inner.addr = last.self /\ w.inner.fullscreened

WaylandCall == last.op = "display_handle" /\ display[1].kind = "Wayland"
X11Call == last.op = "display_handle" /\ display[1].kind = "X11"

\* C7 as stated: for a Wayland display the resolver does not try the X11
\* downcast and returns a Wayland handle with a non-null pointer.
C7_WaylandAlwaysHandle ==
    WaylandCall =>
        /\ "X11Display" \notin Range(last.downcasts)
        /\ IsOk(last.ret)
        /\ last.ret[2].protocol = "Wayland"
        /\ last.ret[2].display # 0

\* C7 as amended: for a Wayland display the resolver does not try the X11
\* downcast; it returns Err(Unavailable), panics on a null pointer, or
\* returns a Wayland handle with a non-null pointer.
C7_WaylandHandleOrUnavailable ==
    WaylandCall =>
        /\ "X11Display" \notin Range(last.downcasts)
        /\ \/ last.ret = Err("Unavailable")
           \/ last.ret = Panic("wl_display should not be null")
           \/ /\ IsOk(last.ret)
              /\ last.ret[2].protocol = "Wayland"
              /\ last.ret[2].display # 0

\* C7 witness: the resolver returned a handle for a Wayland display.
C7_Witness == WaylandCall /\ IsOk(last.ret)

\* C8: for an X11 display the resolver returns an Xlib handle whose screen
\* is the display's screen number.
C8_XlibScreenNumber ==
    X11Call =>
        /\ IsOk(last.ret)
        /\ last.ret[2].protocol = "Xlib"
        /\ last.ret[2].screen = display[1].screen_number

\* C8 witness: a handle was returned for an X11 display on a screen other
\* than screen 0.
C8_Witness == X11Call /\ display[1].screen_number = MaxScreen /\ IsOk(last.ret)

\* C9: a handle is returned only for a Wayland display (a Wayland handle) or
\* an X11 display (an Xlib handle); a display that is neither makes the
\* resolver panic, returning neither a handle nor an error.
C9_NeitherProtocolAborts ==
    last.op = "display_handle" =>
        /\ (IsOk(last.ret) =>
              \/ display[1].kind = "Wayland" /\ last.ret[2].protocol = "Wayland"
              \/ display[1].kind = "X11" /\ last.ret[2].protocol = "Xlib")
        /\ (display[1].kind \notin {"Wayland", "X11"} =>
              /\ last.ret = Panic("unreachable")
              /\ pc = "Panicked")

\* C9 witness: the resolver was called on a display of another backend.
C9_Witness == last.op = "display_handle" /\ display[1].kind = "Other"

\* How many times handle h occurs in sequence s.
Occurrences(s, h) == Cardinality({i \in 1..Len(s) : s[i] = h})

\* C10: available_monitors() returns every native output exactly once; a
\* call right after a call returns the same sequence; and a change of the
\* native list leaves the sequence already returned as it was.
C10_MonitorSnapshot ==
    [][/\ (last'.op = "available_monitors" =>
             /\ held_monitors' = Some(last'.ret)
             /\ Len(last'.ret) = Len(native_monitors')
             /\ \A m \in Monitors :
                  Occurrences(last'.ret, MonitorHandle(m))
                    = (IF m \in Range(native_monitors') THEN 1 ELSE 0))
       /\ (last.op = "available_monitors" /\ last'.op = "available_monitors"
             => last'.ret = last.ret)
       /\ (native_monitors' # native_monitors => held_monitors' = held_monitors)]_vars

\* C10 witness: two calls in a row, from a dispatch cycle, on a display with
\* every output attached.
C10_Witness ==
    /\ last.op = "available_monitors"
    /\ last.repeat
    /\ Len(last.ret) = MaxMonitors
    /\ pc = "Dispatching"

\* C11: EventLoop::new returns an OsError and no loop when the toolkit's
\* initialisation fails or there is no default display, and Ok only when
\* both succeed; the loop it returns is not running, has the default control
\* flow and no exit requested.
C11_NewFailsOrStartsClean ==
    last.op = "new" =>
        /\ IsOk(last.ret) <=> (last.init_ok /\ IsSome(last.default_display))
        /\ (~IsOk(last.ret) =>
              /\ last.ret = Err("OsError")
              /\ pc = "NewFailed"
              /\ display = None)
        /\ (IsOk(last.ret) =>
              /\ pc = "Constructed"
              /\ display = last.default_display
              /\ ~is_running
              /\ control_flow(control_flow_cell) = ControlFlowDefault
              /\ exit_cell = None
              /\ ~exiting(exit_cell))

\* C11 witness: the toolkit initialised and there was no default display.
C11_Witness ==
    /\ last.op = "new"
    /\ last.init_ok
    /\ last.default_display = None
    /\ pc = "NewFailed"

\* C12: create_custom_cursor, for every cursor source, returns an
\* Unimplemented error; it returns no cursor and does not abort.
C12_CustomCursorUnimplemented ==
    last.op = "create_custom_cursor" =>
        /\ last.ret = Err("Unimplemented")
        /\ pc # "Panicked"

\* C13: after wake_up() is called while the loop is blocked in its poll, the
\* loop leaves the poll and starts a dispatch cycle; wake_up returns nothing
\* and changes neither cell nor anything but the context's wakeup request.
C13_WakeUpWakes ==
    /\ (last.op = "wake_up" /\ pc = "Polling")
         ~> (last.op = "loop:wake" /\ pc = "Dispatching")
    /\ [][last'.op = "wake_up" =>
            /\ last'.ret = None
            /\ UNCHANGED <<pc, is_running, proxies, display, control_flow_cell,
                           exit_cell, color_scheme, native_monitors,
                           held_monitors, windows>>]_vars

\* C13 witness: wake_up() has returned while the loop is blocked in its poll,
\* with an exit requested and the control flow set.
C13_Witness ==
    /\ last.op = "wake_up"
    /\ pc = "Polling"
    /\ wakeup_pending
    /\ IsSome(exit_cell)
    /\ cf_last_set # None

\* C14: create_window returns a window that is fullscreen on the monitor
\* given with Borderless, fullscreen for Borderless without a monitor, and
\* not fullscreen for Exclusive or for no fullscreen attribute.
C14_CreateWindowFullscreen ==
    last.op = "create_window" =>
        /\ IsOk(last.ret)
        /\ last.ret[2].inner.fullscreened
             = (last.fullscreen # None /\ last.fullscreen[1][1] = "Borderless")
        /\ last.ret[2].inner.monitor
             = (IF last.fullscreen # None /\ last.fullscreen[1][1] = "Borderless"
                   /\ last.fullscreen[1][2] # None
                THEN Some(last.fullscreen[1][2][1].inner.inner)
                ELSE None)

\* C15: a window's id is the address of its native window, taken when the
\* window is built; every id() call returns it, a window that stays alive
\* keeps it over every step, and two live windows have different ids.
C15_WindowIdFixed ==
    [][/\ \A w \in windows' :
            /\ id(w) = w.inner.addr
            /\ \A v \in windows' : id(v) = id(w) => v = w
            /\ \A v \in windows : v.inner.addr = w.inner.addr => id(w) = id(v)
       /\ (last'.op = "Window::new" => id(last'.ret) = last'.ret.inner.addr)
       /\ (last'.op = "id" =>
             /\ last'.ret = last'.self
             /\ \E w \in windows : w.inner.addr = last'.self /\ id(w) = last'.ret)]_vars

\* C15 witness: id() was called twice in a row while two windows were alive,
\* one of them fullscreen.
C15_Witness ==
    /\ last.op = "id"
    /\ last.repeat
    /\ Cardinality(windows) = 2
    /\ \E w \in windows : w.inner.fullscreened

\* The operations of ActiveEventLoop that only read or do nothing.
ReadOnlyOps ==
    {"exiting", "control_flow", "primary_monitor", "listen_device_events",
     "available_monitors"}

\* C16: only exit() changes the exit state, and it leaves the control flow
\* alone; only set_control_flow changes the control flow, and it leaves the
\* exit state alone; exiting(), control_flow(), primary_monitor(),
\* listen_device_events() and available_monitors() change neither.
C16_CellsIndependent ==
    [][/\ (exit_cell' # exit_cell => last'.op = "exit")
       /\ (control_flow_cell' # control_flow_cell => last'.op = "set_control_flow")
       /\ (last'.op = "exit" => control_flow_cell' = control_flow_cell)
       /\ (last'.op = "set_control_flow" => exit_cell' = exit_cell)
       /\ (last'.op \in ReadOnlyOps =>
             /\ exit_cell' = exit_cell
             /\ control_flow_cell' = control_flow_cell)]_vars

\* C16 witness: exiting() was called with an exit requested and the control
\* flow set to something other than the default.
C16_Witness ==
    /\ last.op = "exiting"
    /\ last.ret = TRUE
    /\ exit_cell = Some(0)
    /\ control_flow_cell = Poll

====
